---- MODULE Spec2Model ----
(***************************************************************************)
(* State-machine model of the AgentReputationContract                      *)
(* (contracts/reputation/src: lib.rs, token_integration.rs, intents.rs,    *)
(* cross_chain.rs).                                                        *)
(*                                                                         *)
(* Every public method is one action.  A method call that panics (a failed *)
(* assert!, an arithmetic overflow under overflow checks) is reverted by   *)
(* the runtime: the contract state is unchanged and only the receipt of    *)
(* the call records the panic message.                                     *)
(*                                                                         *)
(* Free-text payloads that no code path reads (FeedbackEntry.message,      *)
(* ViolationRecord.description / evidence, task ids, reasons) carry no     *)
(* behaviour and are left out of the records.                              *)
(***************************************************************************)
EXTENDS Integers, Sequences, FiniteSets, TLC

(***************************************************************************)
(* Bounds of the model.                                                    *)
(***************************************************************************)
MaxTime == 3            \* block timestamps range over 0..MaxTime
MaxFeedback == 2        \* accepted feedback entries per agent
MaxViolations == 1      \* accepted violation reports per agent
MaxIntents == 1         \* completed / failed intents per agent
MaxPending == 1         \* cross-contract calls in flight
MaxDuplicates == 1      \* repeated deliveries of one transfer outcome

(***************************************************************************)
(* Accounts.  owner_id is the account given to new(); the contract's own   *)
(* account is the predecessor of every callback.                           *)
(***************************************************************************)
owner_id == "owner"
current_account_id == "contract"
AgentIds == {"alice", "bob"}
Accounts == {owner_id} \cup AgentIds

\* min_stake_amount, the third argument of new().
min_stake_amount == 2

\* feedback_expiry_period: 30 days.  The model's time unit is 15 days, so
\* that every block timestamp of the model is a multiple of the unit.
feedback_expiry_period == 2

NoRecord == [none |-> TRUE]

VARIABLES
    agent_reputations,  \* AccountId -> AgentReputation, or NoRecord
    agent_stakes,       \* AccountId -> Balance (a missing key reads as 0)
    block_timestamp,    \* env::block_timestamp()
    promises,           \* cross-contract calls in flight
    receipt,            \* outcome of the last method call
    workload            \* which callers and inputs drive this behaviour

vars == <<agent_reputations, agent_stakes, block_timestamp, promises, receipt,
          workload>>

Min(a, b) == IF a <= b THEN a ELSE b
Max(a, b) == IF a >= b THEN a ELSE b

contains_key(agent_id) == agent_reputations[agent_id] # NoRecord

(***************************************************************************)
(* Fixed-width unsigned integers wider than the integers of TLC are        *)
(* kept as little-endian sequences of 16-bit limbs: u32 has 2 limbs, u128  *)
(* has 8.  Sums and products are computed limb by limb with their carry,   *)
(* so a wrap-around is the value the hardware produces.                    *)
(***************************************************************************)
LimbBase == 2 ^ 16
U32Limbs == 2
U128Limbs == 8

\* The limbs of a small natural n (n < LimbBase * LimbBase).
ToLimbs(n, len) ==
    <<n % LimbBase, (n \div LimbBase) % LimbBase>> \o [i \in 1..(len - 2) |-> 0]

\* TRUE iff the limbs denote a value <= the small natural n (n < LimbBase).
LimbsLeq(a, n) ==
    /\ \A i \in 2..Len(a) : a[i] = 0
    /\ a[1] <= n

\* min(a, n) for limbs a and a small natural n (n < LimbBase).
LimbsMin(a, n) == IF LimbsLeq(a, n) THEN a[1] ELSE n

\* Limbs i.. of a + b, given the carry into limb i and the limbs below i.
RECURSIVE AddFrom(_, _, _, _, _)
AddFrom(a, b, i, carry, low) ==
    IF i > Len(a) THEN [value |-> low, overflow |-> carry # 0]
    ELSE LET t == a[i] + b[i] + carry
         IN  AddFrom(a, b, i + 1, t \div LimbBase, Append(low, t % LimbBase))

\* a + b on limbs of equal length: the wrapped sum and the carry out.
LimbsAdd(a, b) == AddFrom(a, b, 1, 0, <<>>)

RECURSIVE MulFrom(_, _, _, _, _)
MulFrom(a, k, i, carry, low) ==
    IF i > Len(a) THEN [value |-> low, overflow |-> carry # 0]
    ELSE LET t == a[i] * k + carry
         IN  MulFrom(a, k, i + 1, t \div LimbBase, Append(low, t % LimbBase))

\* a * k for a small natural k: the wrapped product and the carry out.
LimbsMulSmall(a, k) == MulFrom(a, k, 1, 0, <<>>)

\* Limbs ..i of a / d, given the remainder of the limbs above i and their
\* quotient limbs.
RECURSIVE DivFrom(_, _, _, _, _)
DivFrom(a, d, i, rem, high) ==
    IF i = 0 THEN high
    ELSE LET t == rem * LimbBase + a[i]
         IN  DivFrom(a, d, i - 1, t % d, <<t \div d>> \o high)

\* a / d (integer division) for a small natural d > 0.
LimbsDivSmall(a, d) == DivFrom(a, d, Len(a), 0, <<>>)

\* a < b on limbs of equal length.
LimbsLess(a, b) ==
    \E i \in 1..Len(a) :
        /\ a[i] < b[i]
        /\ \A j \in (i + 1)..Len(a) : a[j] = b[j]

RECURSIVE SubFrom(_, _, _, _, _)
SubFrom(a, b, i, borrow, low) ==
    IF i > Len(a) THEN low
    ELSE LET t == a[i] - b[i] - borrow
         IN  SubFrom(a, b, i + 1, IF t < 0 THEN 1 ELSE 0,
                     Append(low, (t + LimbBase) % LimbBase))

\* a - b on limbs of equal length, for a >= b.
LimbsSub(a, b) == SubFrom(a, b, 1, 0, <<>>)

\* A small natural as a Balance (u128).
Balance(n) == ToLimbs(n, U128Limbs)

\* `x as u32` of a u128: the low 32 bits.
AsU32(a) == SubSeq(a, 1, U32Limbs)

(***************************************************************************)
(* Records.                                                                *)
(***************************************************************************)
CategoryRatings(a, r, c, p, e) ==
    [accuracy |-> a, response_time |-> r, communication |-> c,
     problem_solving |-> p, ethics |-> e]

\* CategoryRatings::default()
CategoryRatingsDefault == CategoryRatings(0, 0, 0, 0, 0)

ViolationTypes ==
    {"MinorInfraction", "MajorInfraction", "TermsViolation",
     "EthicalViolation", "SecurityBreach"}

\* The AgentReputation that register_agent builds.
NewAgentReputation(specializations) ==
    [score |-> 50,
     total_interactions |-> 0,
     successful_interactions |-> 0,
     feedback_history |-> <<>>,
     last_update |-> block_timestamp,
     specializations |-> specializations,
     category_scores |-> CategoryRatingsDefault,
     violation_history |-> <<>>]

(***************************************************************************)
(* Scoring engine.                                                         *)
(***************************************************************************)
\* NotExpired with a strict comparison.
NotExpired_strict(f) == block_timestamp - f.timestamp < feedback_expiry_period

\* The filter of recalculate_reputation: the entries that have not expired.
NotExpired(f) == block_timestamp - f.timestamp <= feedback_expiry_period

valid_feedback(feedback_history) == SelectSeq(feedback_history, NotExpired)

\* calculate_stake_bonus with the top bonus granted from 4x the minimum.
stake_bonus_of_early_top(stake, min_stake) ==
    IF LimbsLess(stake, Balance(min_stake)) THEN 0
    ELSE LET stake_multiple == LimbsDivSmall(stake, min_stake)
         IN  CASE stake_multiple = Balance(0) -> 0
               [] stake_multiple = Balance(1) -> 3
               [] stake_multiple = Balance(2) -> 6
               [] stake_multiple = Balance(3) -> 9
               [] OTHER -> 15

\* calculate_stake_bonus, on the staked amount (a u128) it looks up.
stake_bonus_of(stake, min_stake) ==
    IF LimbsLess(stake, Balance(min_stake)) THEN 0
    ELSE LET stake_multiple == LimbsDivSmall(stake, min_stake)
         IN  CASE stake_multiple = Balance(0) -> 0
               [] stake_multiple = Balance(1) -> 3
               [] stake_multiple = Balance(2) -> 6
               [] stake_multiple = Balance(3) -> 9
               [] stake_multiple = Balance(4) -> 12
               [] OTHER -> 15

calculate_stake_bonus(agent_id) ==
    stake_bonus_of(agent_stakes[agent_id], min_stake_amount)

\* The account whose stake recalculate_reputation looks up: it passes
\* env::predecessor_account_id() to calculate_stake_bonus.
stake_bonus_account(predecessor, agent_id) == predecessor

\* The loop of recalculate_reputation: the i-th valid entry weighs i.
\* total_rating with the weights running from the newest entry back.
total_rating_newest_first(valid) ==
    LET acc[i \in 0..Len(valid)] ==
            IF i = 0 THEN 0
            ELSE acc[i - 1] + valid[i].rating * (Len(valid) - i + 1)
    IN  acc[Len(valid)]

total_rating(valid) ==
    LET acc[i \in 0..Len(valid)] ==
            IF i = 0 THEN 0 ELSE acc[i - 1] + valid[i].rating * i
    IN  acc[Len(valid)]

weight_sum(valid) ==
    LET acc[i \in 0..Len(valid)] == IF i = 0 THEN 0 ELSE acc[i - 1] + i
    IN  acc[Len(valid)]

\* combined_score averaged with the score held before the recomputation.
combined_score_blended(agent_rep, valid) ==
    LET raw_score == (total_rating(valid) * 20) \div weight_sum(valid)
        success_rate == (agent_rep.successful_interactions * 100)
                            \div agent_rep.total_interactions
    IN  ((raw_score + success_rate) \div 2 + agent_rep.score) \div 2

\* The score recalculate_reputation stores when weight_sum > 0.
combined_score(agent_rep, valid) ==
    LET raw_score == (total_rating(valid) * 20) \div weight_sum(valid)
        success_rate == (agent_rep.successful_interactions * 100)
                            \div agent_rep.total_interactions
    IN  (raw_score + success_rate) \div 2

\* recalculate_reputation scoring a record without valid feedback by its
\* success rate and stake bonus.
recalculate_reputation_on_empty(agent_rep, predecessor, agent_id) ==
    IF agent_rep.total_interactions = 0 THEN agent_rep
    ELSE LET valid == valid_feedback(agent_rep.feedback_history)
             bonus == calculate_stake_bonus(
                          stake_bonus_account(predecessor, agent_id))
         IN  IF weight_sum(valid) > 0
             THEN [agent_rep EXCEPT !.score =
                      Min(combined_score(agent_rep, valid) + bonus, 100)]
             ELSE [agent_rep EXCEPT !.score =
                      Min(((agent_rep.successful_interactions * 100)
                              \div agent_rep.total_interactions) \div 2
                             + bonus,
                          100)]

recalculate_reputation(agent_rep, predecessor, agent_id) ==
    IF agent_rep.total_interactions = 0 THEN agent_rep
    ELSE LET valid == valid_feedback(agent_rep.feedback_history)
         IN  IF weight_sum(valid) > 0
             THEN [agent_rep EXCEPT !.score =
                      Min(combined_score(agent_rep, valid)
                            + calculate_stake_bonus(
                                  stake_bonus_account(predecessor, agent_id)),
                          100)]
             ELSE agent_rep

\* Sum of one category field over the valid entries.
category_sum(valid, field) ==
    LET acc[i \in 0..Len(valid)] ==
            IF i = 0 THEN 0 ELSE acc[i - 1] + valid[i].category_ratings[field]
    IN  acc[Len(valid)]

\* recalculate_reputation_with_categories dropping the expired entries from
\* the stored history.
recalculate_reputation_with_categories_pruning(agent_rep, predecessor, agent_id) ==
    IF agent_rep.total_interactions = 0 THEN agent_rep
    ELSE LET valid == valid_feedback(agent_rep.feedback_history)
             count == Len(valid)
         IN  IF count = 0 THEN agent_rep
             ELSE recalculate_reputation(
                      [agent_rep EXCEPT
                          !.feedback_history = valid,
                          !.category_scores =
                              [field \in DOMAIN CategoryRatingsDefault |->
                                  category_sum(valid, field) \div count]],
                      predecessor, agent_id)

recalculate_reputation_with_categories(agent_rep, predecessor, agent_id) ==
    IF agent_rep.total_interactions = 0 THEN agent_rep
    ELSE LET valid == valid_feedback(agent_rep.feedback_history)
             count == Len(valid)
         IN  IF count = 0 THEN agent_rep
             ELSE recalculate_reputation(
                      [agent_rep EXCEPT !.category_scores =
                          [field \in DOMAIN CategoryRatingsDefault |->
                              category_sum(valid, field) \div count]],
                      predecessor, agent_id)

\* is_governance_member: only the owner, for now.
is_governance_member(account_id) == account_id = owner_id

(***************************************************************************)
(* Method calls.                                                           *)
(***************************************************************************)
Ok == "ok"

\* The call returned: its writes are committed.
Return(method) == receipt' = [method |-> method, outcome |-> Ok]

\* The call panicked with `message`: the runtime reverts every write.
Panic(method, message) ==
    /\ receipt' = [method |-> method, outcome |-> message]
    /\ UNCHANGED <<agent_reputations, agent_stakes, promises>>

RemoveAt(seq, i) == SubSeq(seq, 1, i - 1) \o SubSeq(seq, i + 1, Len(seq))

\* The workloads of the model: each is one set of callers and inputs, and a
\* behaviour is driven by one of them from construction on.
Workloads ==
    {"stake_bonus", "expiry", "violation", "restoration", "feedback",
     "registration", "staking", "redelivery", "two_agents"}

\* new(owner_id, token_contract_id, min_stake_amount)
Init ==
    /\ agent_reputations = [a \in Accounts |-> NoRecord]
    /\ agent_stakes = [a \in Accounts |-> Balance(0)]
    /\ block_timestamp = 0
    /\ promises = <<>>
    /\ receipt = [method |-> "new", outcome |-> Ok]
    /\ workload \in Workloads

\* A block d time units later: env::block_timestamp() never decreases.
Tick(d) ==
    /\ block_timestamp + d <= MaxTime
    /\ block_timestamp' = block_timestamp + d
    /\ UNCHANGED <<agent_reputations, agent_stakes, promises, receipt>>

\* register_agent without the check for an existing record.
register_agent_overwriting(predecessor, agent_id, specializations) ==
    /\ UNCHANGED block_timestamp
    /\ IF predecessor # agent_id
       THEN Panic("register_agent", "Only agent can register itself")
       ELSE /\ agent_reputations' =
                  [agent_reputations EXCEPT
                      ![agent_id] = NewAgentReputation(specializations)]
            /\ UNCHANGED <<agent_stakes, promises>>
            /\ Return("register_agent")

\* register_agent without the check of the caller.
register_agent_by_proxy(predecessor, agent_id, specializations) ==
    /\ UNCHANGED block_timestamp
    /\ IF contains_key(agent_id)
       THEN Panic("register_agent", "Agent already registered")
       ELSE /\ agent_reputations' =
                  [agent_reputations EXCEPT
                      ![agent_id] = NewAgentReputation(specializations)]
            /\ UNCHANGED <<agent_stakes, promises>>
            /\ Return("register_agent")

register_agent(predecessor, agent_id, specializations) ==
    /\ UNCHANGED block_timestamp
    /\ IF predecessor # agent_id
       THEN Panic("register_agent", "Only agent can register itself")
       ELSE IF contains_key(agent_id)
       THEN Panic("register_agent", "Agent already registered")
       ELSE /\ agent_reputations' =
                  [agent_reputations EXCEPT
                      ![agent_id] = NewAgentReputation(specializations)]
            /\ UNCHANGED <<agent_stakes, promises>>
            /\ Return("register_agent")

\* rating_check without the assert on the ethics rating.
rating_check_without_ethics(rating, category_ratings) ==
    IF ~(rating <= 5) THEN "Rating must be between 0 and 5"
    ELSE IF ~(category_ratings.accuracy <= 5)
    THEN "Accuracy rating must be between 0 and 5"
    ELSE IF ~(category_ratings.response_time <= 5)
    THEN "Response time rating must be between 0 and 5"
    ELSE IF ~(category_ratings.communication <= 5)
    THEN "Communication rating must be between 0 and 5"
    ELSE IF ~(category_ratings.problem_solving <= 5)
    THEN "Problem solving rating must be between 0 and 5"
    ELSE Ok

\* The asserts of add_feedback on the ratings, in order: the message of the
\* first that fails, or Ok.
rating_check(rating, category_ratings) ==
    IF ~(rating <= 5) THEN "Rating must be between 0 and 5"
    ELSE IF ~(category_ratings.accuracy <= 5)
    THEN "Accuracy rating must be between 0 and 5"
    ELSE IF ~(category_ratings.response_time <= 5)
    THEN "Response time rating must be between 0 and 5"
    ELSE IF ~(category_ratings.communication <= 5)
    THEN "Communication rating must be between 0 and 5"
    ELSE IF ~(category_ratings.problem_solving <= 5)
    THEN "Problem solving rating must be between 0 and 5"
    ELSE IF ~(category_ratings.ethics <= 5)
    THEN "Ethics rating must be between 0 and 5"
    ELSE Ok

\* count_interaction with the total counted only for a failed interaction.
count_interaction_else(agent_rep, successful) ==
    [agent_rep EXCEPT
        !.total_interactions = IF successful THEN @ ELSE @ + 1,
        !.successful_interactions = IF successful THEN @ + 1 ELSE @]

\* The interaction counters after one more interaction: add_feedback counts
\* a rating >= 3 as successful, update_intent_status a completed intent.
count_interaction(agent_rep, successful) ==
    [agent_rep EXCEPT
        !.total_interactions = @ + 1,
        !.successful_interactions = IF successful THEN @ + 1 ELSE @]

\* add_feedback_record counting only a rating above 3 as successful.
add_feedback_record_above_3(agent_rep, predecessor, agent_id, rating, category_ratings) ==
    LET feedback == [user_id |-> predecessor,
                     rating |-> rating,
                     category_ratings |-> category_ratings,
                     timestamp |-> block_timestamp]
        pushed == count_interaction(
                      [agent_rep EXCEPT !.feedback_history = Append(@, feedback)],
                      rating > 3)
        recalculated ==
            recalculate_reputation_with_categories(pushed, predecessor, agent_id)
    IN  [recalculated EXCEPT !.last_update = block_timestamp]

\* The record add_feedback stores for an accepted entry.
add_feedback_record(agent_rep, predecessor, agent_id, rating, category_ratings) ==
    LET feedback == [user_id |-> predecessor,
                     rating |-> rating,
                     category_ratings |-> category_ratings,
                     timestamp |-> block_timestamp]
        pushed == count_interaction(
                      [agent_rep EXCEPT !.feedback_history = Append(@, feedback)],
                      rating >= 3)
        recalculated ==
            recalculate_reputation_with_categories(pushed, predecessor, agent_id)
    IN  [recalculated EXCEPT !.last_update = block_timestamp]

add_feedback(predecessor, agent_id, rating, category_ratings) ==
    /\ UNCHANGED block_timestamp
    /\ IF ~contains_key(agent_id)
       THEN Panic("add_feedback", "Agent not registered")
       ELSE IF rating_check(rating, category_ratings) # Ok
       THEN Panic("add_feedback", rating_check(rating, category_ratings))
       ELSE /\ Len(agent_reputations[agent_id].feedback_history) < MaxFeedback
            /\ agent_reputations' =
                  [agent_reputations EXCEPT ![agent_id] =
                      add_feedback_record(@, predecessor, agent_id,
                                          rating, category_ratings)]
            /\ UNCHANGED <<agent_stakes, promises>>
            /\ Return("add_feedback")

\* update_reputation_on_stake_change recomputing the record of the caller.
update_reputation_on_stake_change_of_caller(predecessor, agent_id) ==
    /\ UNCHANGED <<block_timestamp, agent_stakes, promises>>
    /\ agent_reputations' =
          IF contains_key(predecessor)
          THEN [agent_reputations EXCEPT ![predecessor] =
                   recalculate_reputation(@, predecessor, predecessor)]
          ELSE agent_reputations
    /\ Return("update_reputation_on_stake_change")

update_reputation_on_stake_change(predecessor, agent_id) ==
    /\ UNCHANGED <<block_timestamp, agent_stakes, promises>>
    /\ agent_reputations' =
          IF contains_key(agent_id)
          THEN [agent_reputations EXCEPT ![agent_id] =
                   recalculate_reputation(@, predecessor, agent_id)]
          ELSE agent_reputations
    /\ Return("update_reputation_on_stake_change")

\* `current_stake + amount` is a u128 sum: when it exceeds the u128 range a
\* build with overflow checks panics and a build without wraps.
stake_tokens(predecessor, amount) ==
    /\ UNCHANGED block_timestamp
    /\ LET sum == LimbsAdd(agent_stakes[predecessor], amount)
       IN  \/ /\ sum.overflow
               /\ Panic("stake_tokens", "attempt to add with overflow")
            \/ /\ agent_stakes' =
                      [agent_stakes EXCEPT ![predecessor] = sum.value]
               /\ UNCHANGED <<agent_reputations, promises>>
               /\ Return("stake_tokens")

\* The (reputation_penalty, token_slash_percentage) table of report_violation.
reputation_penalty(violation_type) ==
    CASE violation_type = "MinorInfraction" -> 5
      [] violation_type = "MajorInfraction" -> 15
      [] violation_type = "TermsViolation" -> 25
      [] violation_type = "EthicalViolation" -> 40
      [] violation_type = "SecurityBreach" -> 60

token_slash_percentage(violation_type) ==
    CASE violation_type = "MinorInfraction" -> 1
      [] violation_type = "MajorInfraction" -> 5
      [] violation_type = "TermsViolation" -> 10
      [] violation_type = "EthicalViolation" -> 25
      [] violation_type = "SecurityBreach" -> 50

\* penalized_score without the floor at zero.
penalized_score_unfloored(score, penalty) == score - penalty

\* The score report_violation stores.
penalized_score(score, penalty) ==
    IF score >= penalty THEN score - penalty ELSE 0

\* stake * token_slash_percentage as u128 / 100, the product in u128.
tokens_to_slash(stake, violation_type) ==
    LimbsDivSmall(
        LimbsMulSmall(stake, token_slash_percentage(violation_type)).value,
        100)

slash_overflows(stake, violation_type) ==
    LimbsMulSmall(stake, token_slash_percentage(violation_type)).overflow

\* execute_slashing: the stake it leaves.
execute_slashing(current_stake, amount) ==
    IF ~LimbsLess(current_stake, amount)
    THEN LimbsSub(current_stake, amount)
    ELSE current_stake

\* authorized with the caller check left out.
authorized_anyone(predecessor) == predecessor \in Accounts

\* The caller check of report_violation and restore_reputation.
authorized(predecessor) ==
    predecessor = owner_id \/ is_governance_member(predecessor)

\* `stake * token_slash_percentage as u128` is a u128 product: when it
\* exceeds the u128 range a build with overflow checks panics and a build
\* without wraps.
report_violation(predecessor, agent_id, violation_type) ==
    /\ UNCHANGED <<block_timestamp, promises>>
    /\ IF ~authorized(predecessor)
       THEN Panic("report_violation",
                  "Unauthorized: only owner or governance members can report violations")
       ELSE IF ~contains_key(agent_id)
       THEN Panic("report_violation", "Agent not registered")
       ELSE LET agent_rep == agent_reputations[agent_id]
                stake == agent_stakes[agent_id]
                slash == tokens_to_slash(stake, violation_type)
                violation ==
                    [violation_type |-> violation_type,
                     reporter |-> predecessor,
                     timestamp |-> block_timestamp,
                     penalty_applied |-> reputation_penalty(violation_type),
                     tokens_slashed |-> slash]
            IN  \/ /\ slash_overflows(stake, violation_type)
                   /\ Panic("report_violation",
                            "attempt to multiply with overflow")
                \/ /\ Len(agent_rep.violation_history) < MaxViolations
                   /\ agent_reputations' =
                         [agent_reputations EXCEPT ![agent_id] =
                             [agent_rep EXCEPT
                                 !.score = penalized_score(
                                     @, reputation_penalty(violation_type)),
                                 !.violation_history = Append(@, violation)]]
                   /\ agent_stakes' =
                         IF slash # Balance(0)
                         THEN [agent_stakes EXCEPT ![agent_id] =
                                  execute_slashing(@, slash)]
                         ELSE agent_stakes
                   /\ Return("report_violation")

appeal_violation(predecessor, violation_index) ==
    /\ UNCHANGED block_timestamp
    /\ IF ~contains_key(predecessor)
       THEN Panic("appeal_violation", "Agent not registered")
       ELSE IF ~(violation_index
                   < Len(agent_reputations[predecessor].violation_history))
       THEN Panic("appeal_violation", "Invalid violation index")
       ELSE /\ UNCHANGED <<agent_reputations, agent_stakes, promises>>
            /\ Return("appeal_violation")

\* agent_rep.score + points in u32, then min(.., 100).
restored_score(score, points) ==
    LimbsMin(LimbsAdd(ToLimbs(score, U32Limbs), points).value, 100)

restore_overflows(score, points) ==
    LimbsAdd(ToLimbs(score, U32Limbs), points).overflow

\* `agent_rep.score + points` is a u32 sum: when it exceeds the u32 range
\* a build with overflow checks panics and a build without wraps.
restore_reputation(predecessor, agent_id, points) ==
    /\ UNCHANGED <<block_timestamp, agent_stakes, promises>>
    /\ IF ~authorized(predecessor)
       THEN Panic("restore_reputation",
                  "Unauthorized: only owner or governance can restore reputation")
       ELSE IF ~contains_key(agent_id)
       THEN Panic("restore_reputation", "Agent not registered")
       ELSE \/ /\ restore_overflows(agent_reputations[agent_id].score, points)
               /\ Panic("restore_reputation", "attempt to add with overflow")
            \/ /\ agent_reputations' =
                      [agent_reputations EXCEPT ![agent_id].score =
                          restored_score(@, points)]
               /\ Return("restore_reputation")

\* Fixed 5 points per remediation task.
recovery_points_per_task == 5

\* The score after a task that grants twice the fixed points.
remediated_score_double(score) ==
    Min(score + 2 * recovery_points_per_task, 100)

\* std::cmp::min(agent_rep.score + recovery_points, 100)
remediated_score(score) == Min(score + recovery_points_per_task, 100)

complete_remediation_task(predecessor) ==
    /\ UNCHANGED <<block_timestamp, agent_stakes, promises>>
    /\ IF ~contains_key(predecessor)
       THEN Panic("complete_remediation_task", "Agent not registered")
       ELSE /\ agent_reputations' =
                  [agent_reputations EXCEPT ![predecessor].score =
                      remediated_score(@)]
            /\ Return("complete_remediation_task")

(***************************************************************************)
(* token_integration.rs: staking through the token contract.  A promise    *)
(* is one cross-contract call in flight: the transfer stake_itlx asked     *)
(* for, with the callback scheduled after it, or the ft_transfer of        *)
(* unstake_itlx, which has no callback.                                    *)
(***************************************************************************)
PromiseResults == {"Successful", "Failed"}

\* The promise chain stake_itlx returns.
\* The promise chain of stake_itlx.  `requested_by` and `delivered` are the
\* runtime's side of the chain: the call that created it and the outcomes of
\* the transfer already handed to the callback.
stake_itlx_promise(predecessor, amount) ==
    [method |-> "ft_transfer_call", callback |-> "on_stake_complete",
     agent_id |-> predecessor, amount |-> amount,
     requested_by |-> "stake_itlx", delivered |-> <<>>]

stake_itlx(predecessor, amount) ==
    /\ Len(promises) < MaxPending
    /\ promises' = Append(promises, stake_itlx_promise(predecessor, amount))
    /\ UNCHANGED <<block_timestamp, agent_reputations, agent_stakes>>
    /\ Return("stake_itlx")

\* on_stake_complete crediting the stake whatever the transfer's outcome.
on_stake_complete_any_result(predecessor, agent_id, amount, promise_result) ==
    /\ UNCHANGED block_timestamp
    /\ IF predecessor # current_account_id
       THEN Panic("on_stake_complete", "Unauthorized")
       ELSE /\ agent_stakes' =
                  [agent_stakes EXCEPT ![agent_id] =
                      LimbsAdd(agent_stakes[agent_id], amount).value]
            /\ UNCHANGED agent_reputations
            /\ Return("on_stake_complete")

\* The callback; the runtime removes the promise it answers.
\* `current_stake + amount.0` is a u128 sum: beyond the u128 range a build
\* with overflow checks panics and a build without wraps.
on_stake_complete(predecessor, agent_id, amount, promise_result) ==
    /\ UNCHANGED block_timestamp
    /\ IF predecessor # current_account_id
       THEN Panic("on_stake_complete", "Unauthorized")
       ELSE IF promise_result = "Successful"
       THEN LET sum == LimbsAdd(agent_stakes[agent_id], amount)
            IN  \/ /\ sum.overflow
                   /\ receipt' = [method |-> "on_stake_complete",
                                  outcome |-> "attempt to add with overflow"]
                   /\ UNCHANGED <<agent_reputations, agent_stakes>>
                \/ /\ agent_stakes' =
                         [agent_stakes EXCEPT ![agent_id] = sum.value]
                   /\ UNCHANGED agent_reputations
                   /\ Return("on_stake_complete")
       ELSE /\ UNCHANGED <<agent_reputations, agent_stakes>>
            /\ Return("on_stake_complete")

\* The token contract answered promise i: the runtime runs its callback.
stake_transfer_settled(i, promise_result) ==
    /\ promises[i].callback = "on_stake_complete"
    /\ \A k \in DOMAIN promises[i].delivered :
          promises[i].delivered[k] = promise_result
    /\ on_stake_complete(current_account_id, promises[i].agent_id,
                         promises[i].amount, promise_result)
    /\ promises' = RemoveAt(promises, i)

\* The outcome of promise i reaches the callback and will reach it again: a
\* duplicate delivery of the same outcome.  on_stake_complete takes no
\* request identifier, so it runs as for a first delivery.
stake_transfer_delivered(i, promise_result) ==
    /\ promises[i].callback = "on_stake_complete"
    /\ Len(promises[i].delivered) < MaxDuplicates
    /\ \A k \in DOMAIN promises[i].delivered :
          promises[i].delivered[k] = promise_result
    /\ on_stake_complete(current_account_id, promises[i].agent_id,
                         promises[i].amount, promise_result)
    /\ promises' = [promises EXCEPT ![i].delivered = Append(@, promise_result)]

\* The score unstake_itlx stores when the stake falls below the minimum.
unstake_penalized_score(score) == IF score > 5 THEN score - 5 ELSE score

\* The receipt of an accepted call also holds `prior`, the stake and the
\* record the call started from.
unstake_itlx(predecessor, amount) ==
    /\ UNCHANGED block_timestamp
    /\ LET current_stake == agent_stakes[predecessor]
       IN  IF LimbsLess(current_stake, amount)
           THEN Panic("unstake_itlx", "Not enough staked tokens")
           ELSE /\ Len(promises) < MaxPending
                /\ agent_stakes' =
                      [agent_stakes EXCEPT ![predecessor] =
                          LimbsSub(current_stake, amount)]
                /\ agent_reputations' =
                      IF /\ LimbsLess(LimbsSub(current_stake, amount),
                                      Balance(min_stake_amount))
                         /\ contains_key(predecessor)
                      THEN [agent_reputations EXCEPT ![predecessor].score =
                               unstake_penalized_score(@)]
                      ELSE agent_reputations
                /\ promises' =
                      Append(promises,
                             [method |-> "ft_transfer", callback |-> "none",
                              agent_id |-> predecessor, amount |-> amount])
                /\ receipt' =
                      [method |-> "unstake_itlx", outcome |-> Ok,
                       prior |->
                          [stake |-> current_stake,
                           record |-> agent_reputations[predecessor]]]

\* The token contract answered the ft_transfer of unstake_itlx; no callback
\* was scheduled, so the contract runs nothing.
unstake_transfer_settled(i, promise_result) ==
    /\ promises[i].callback = "none"
    /\ promises' = RemoveAt(promises, i)
    /\ receipt' = [method |-> "ft_transfer", outcome |-> promise_result]
    /\ UNCHANGED <<block_timestamp, agent_reputations, agent_stakes>>

\* boost_recovery_with_stake open to a score of 50 as well.
boost_recovery_with_stake_at_50(predecessor, additional_stake) ==
    IF ~contains_key(predecessor)
    THEN /\ Panic("boost_recovery_with_stake", "Agent not registered")
         /\ UNCHANGED block_timestamp
    ELSE IF ~(agent_reputations[predecessor].score <= 50)
    THEN /\ Panic("boost_recovery_with_stake",
                  "Recovery boost only available for agents with reputation below 50")
         /\ UNCHANGED block_timestamp
    ELSE /\ Len(promises) < MaxPending
         /\ promises' =
               Append(promises,
                      [stake_itlx_promise(predecessor, additional_stake)
                          EXCEPT !.requested_by = "boost_recovery_with_stake"])
         /\ UNCHANGED <<block_timestamp, agent_reputations, agent_stakes>>
         /\ Return("boost_recovery_with_stake")

boost_recovery_with_stake(predecessor, additional_stake) ==
    IF ~contains_key(predecessor)
    THEN /\ Panic("boost_recovery_with_stake", "Agent not registered")
         /\ UNCHANGED block_timestamp
    ELSE IF ~(agent_reputations[predecessor].score < 50)
    THEN /\ Panic("boost_recovery_with_stake",
                  "Recovery boost only available for agents with reputation below 50")
         /\ UNCHANGED block_timestamp
    ELSE /\ Len(promises) < MaxPending
         /\ promises' =
               Append(promises,
                      [stake_itlx_promise(predecessor, additional_stake)
                          EXCEPT !.requested_by = "boost_recovery_with_stake"])
         /\ UNCHANGED <<block_timestamp, agent_reputations, agent_stakes>>
         /\ Return("boost_recovery_with_stake")

\* (amount.0 * 10 / self.min_stake_amount) as u32, then min(.., 20);
\* amount is a u128 in limbs.
recovery_points(amount) ==
    LimbsMin(AsU32(LimbsDivSmall(LimbsMulSmall(amount, 10).value,
                                 min_stake_amount)),
             20)

recovery_overflows(amount) == LimbsMulSmall(amount, 10).overflow

\* on_recovery_stake_complete accepts only the contract's own account as
\* predecessor.  `amount.0 * 10` is a u128 product: beyond the u128 range a
\* build with overflow checks panics and a build without wraps.
on_recovery_stake_complete(predecessor, agent_id, amount, promise_result) ==
    /\ UNCHANGED <<block_timestamp, agent_stakes, promises>>
    /\ IF predecessor # current_account_id
       THEN Panic("on_recovery_stake_complete", "Unauthorized")
       ELSE IF promise_result = "Successful" /\ contains_key(agent_id)
       THEN \/ /\ recovery_overflows(amount)
               /\ Panic("on_recovery_stake_complete",
                        "attempt to multiply with overflow")
            \/ /\ agent_reputations' =
                      [agent_reputations EXCEPT ![agent_id].score =
                          Min(@ + recovery_points(amount), 100)]
               /\ Return("on_recovery_stake_complete")
       ELSE /\ UNCHANGED agent_reputations
            /\ Return("on_recovery_stake_complete")

(***************************************************************************)
(* intents.rs                                                              *)
(***************************************************************************)
IntentStatuses == {"completed", "failed", "in_progress"}

update_intent_status(predecessor, status) ==
    /\ UNCHANGED <<block_timestamp, agent_stakes, promises>>
    /\ IF ~contains_key(predecessor)
       THEN Panic("update_intent_status", "Agent not registered")
       ELSE IF status \notin IntentStatuses
       THEN Panic("update_intent_status", "Invalid status")
       ELSE IF status = "completed" \/ status = "failed"
       THEN LET agent_rep == agent_reputations[predecessor]
            IN  /\ agent_rep.total_interactions
                      - Len(agent_rep.feedback_history) < MaxIntents
                /\ agent_reputations' =
                      [agent_reputations EXCEPT ![predecessor] =
                          count_interaction(agent_rep, status = "completed")]
                /\ Return("update_intent_status")
       ELSE /\ UNCHANGED agent_reputations
            /\ Return("update_intent_status")

(***************************************************************************)
(* cross_chain.rs: verify_cross_chain_data is a placeholder that returns   *)
(* None, so import_cross_chain_reputation never merges or creates a record.*)
(***************************************************************************)
import_cross_chain_reputation(predecessor, agent_id) ==
    /\ UNCHANGED block_timestamp
    /\ IF ~(predecessor = owner_id \/ predecessor = agent_id)
       THEN Panic("import_cross_chain_reputation", "Unauthorized")
       ELSE /\ UNCHANGED <<agent_reputations, agent_stakes, promises>>
            /\ Return("import_cross_chain_reputation")

(***************************************************************************)
(* View methods: trust levels and capability limits.                       *)
(***************************************************************************)
TrustLevels == {"Novice", "Apprentice", "Trusted", "Expert", "Master"}

\* get_trust_level with a score of 30 already an Apprentice.
get_trust_level_from_30(score) ==
    CASE score \in 0..29 -> "Novice"
      [] score \in 30..50 -> "Apprentice"
      [] score \in 51..75 -> "Trusted"
      [] score \in 76..90 -> "Expert"
      [] OTHER -> "Master"

get_trust_level(score) ==
    CASE score \in 0..30 -> "Novice"
      [] score \in 31..50 -> "Apprentice"
      [] score \in 51..75 -> "Trusted"
      [] score \in 76..90 -> "Expert"
      [] OTHER -> "Master"

\* 10u128.pow(k)
RECURSIVE Pow10(_)
Pow10(k) == IF k = 0 THEN Balance(1) ELSE LimbsMulSmall(Pow10(k - 1), 10).value

\* 10u128.pow(18): one token in base units.
OneToken == Pow10(18)

\* n * 10u128.pow(18)
Tokens(n) == LimbsMulSmall(OneToken, n).value

\* u128::MAX
U128Max == [i \in 1..U128Limbs |-> LimbBase - 1]

CapabilityLimits(complexity, value, critical, autonomous, delegate) ==
    [max_complexity |-> complexity,
     max_transaction_value |-> value,
     can_access_critical_systems |-> critical,
     can_operate_autonomously |-> autonomous,
     can_delegate |-> delegate]

\* Option<T>: None, or Some(x).
None == <<>>

Some(x) == <<x>>

\* get_capability_limits: the limits of the agent's trust level, or None.
get_capability_limits(agent_id) ==
    IF contains_key(agent_id)
    THEN LET trust_level == get_trust_level(agent_reputations[agent_id].score)
         IN  Some(
             CASE trust_level = "Novice" ->
                    CapabilityLimits(3, Tokens(100), FALSE, FALSE, FALSE)
               [] trust_level = "Apprentice" ->
                    CapabilityLimits(5, Tokens(500), FALSE, TRUE, FALSE)
               [] trust_level = "Trusted" ->
                    CapabilityLimits(7, Tokens(2000), FALSE, TRUE, TRUE)
               [] trust_level = "Expert" ->
                    CapabilityLimits(9, Tokens(10000), TRUE, TRUE, TRUE)
               [] trust_level = "Master" ->
                    CapabilityLimits(10, U128Max, TRUE, TRUE, TRUE))
    ELSE None

\* can_perform_action with a transaction allowed only below the ceiling.
can_perform_action_below(agent_id, action_type, value) ==
    LET limits == get_capability_limits(agent_id)
    IN  IF limits # None
        THEN CASE action_type = "transaction" ->
                    IF value # None
                    THEN LimbsLess(value[1], limits[1].max_transaction_value)
                    ELSE FALSE
               [] action_type = "critical_access" ->
                    limits[1].can_access_critical_systems
               [] action_type = "autonomous_operation" ->
                    limits[1].can_operate_autonomously
               [] action_type = "delegation" -> limits[1].can_delegate
               [] OTHER -> FALSE
        ELSE FALSE

\* can_perform_action; value is None or a Balance.
can_perform_action(agent_id, action_type, value) ==
    LET limits == get_capability_limits(agent_id)
    IN  IF limits # None
        THEN CASE action_type = "transaction" ->
                    IF value # None
                    THEN ~LimbsLess(limits[1].max_transaction_value, value[1])
                    ELSE FALSE
               [] action_type = "critical_access" ->
                    limits[1].can_access_critical_systems
               [] action_type = "autonomous_operation" ->
                    limits[1].can_operate_autonomously
               [] action_type = "delegation" -> limits[1].can_delegate
               [] OTHER -> FALSE
        ELSE FALSE

\* A view call: it returns `result` and writes nothing.
View(method, result) ==
    /\ receipt' = [method |-> method, outcome |-> result]
    /\ UNCHANGED <<agent_reputations, agent_stakes, block_timestamp, promises,
                   workload>>

call_calculate_stake_bonus(stake, min_stake) ==
    View("calculate_stake_bonus", stake_bonus_of(stake, min_stake))

call_get_trust_level(score) ==
    View("get_trust_level", get_trust_level(score))

call_get_capability_limits(agent_id) ==
    View("get_capability_limits", get_capability_limits(agent_id))

call_can_perform_action(agent_id, action_type, value) ==
    View("can_perform_action", can_perform_action(agent_id, action_type, value))

(***************************************************************************)
(* Inputs of the calls.                                                    *)
(***************************************************************************)
SpecializationInputs == {<<>>, <<"nlp">>}

\* The category ratings sent along with an overall rating in 0..5.
CategoriesFor(rating) ==
    IF rating >= 3 THEN CategoryRatings(5, 5, 5, 5, 5)
    ELSE CategoryRatings(1, 2, 3, 4, 5)

InvalidCategoryInputs ==
    {CategoryRatings(6, 0, 0, 0, 0), CategoryRatings(0, 6, 0, 0, 0),
     CategoryRatings(0, 0, 6, 0, 0), CategoryRatings(0, 0, 0, 6, 0),
     CategoryRatings(0, 0, 0, 0, 6)}

\* <<rating, category_ratings>> of the feedback calls: in range, the
\* overall rating out of range, each category rating out of range.
FeedbackInputs ==
    {<<r, CategoriesFor(r)>> : r \in {1, 2, 3, 5}}
        \cup {<<6, CategoriesFor(5)>>}
        \cup {<<5, c>> : c \in InvalidCategoryInputs}

StakeAmounts ==
    {Balance(1), Balance(min_stake_amount), Balance(5 * min_stake_amount)}

\* Amounts moved through the token contract.
TransferAmounts == {Balance(1), Balance(min_stake_amount)}

\* 2^127 as a Balance.
HugeBalance == [i \in 1..(U128Limbs - 1) |-> 0] \o <<LimbBase \div 2>>

\* Stakes that the slash percentages divide exactly, and not, and a stake
\* in the upper half of the u128 range.
SlashableStakes ==
    {Balance(5 * min_stake_amount), Balance(50 * min_stake_amount), HugeBalance}

\* u32 points: 30, 2^32 - 50 and 2^32 - 1.
PointsInputs ==
    {ToLimbs(30, U32Limbs), <<LimbBase - 50, LimbBase - 1>>,
     <<LimbBase - 1, LimbBase - 1>>}

\* u128 amounts: 1, 2^32 and 2^127.
RecoveryAmounts ==
    {Balance(1), <<0, 0, 1>> \o [i \in 1..(U128Limbs - 3) |-> 0], HugeBalance}

IntentStatusInputs == IntentStatuses \cup {"cancelled"}

ViolationIndexInputs == {0, 1}

\* The environment of the model deposits only for an account that holds
\* no stake and awaits none, so stakes stay within the amounts it draws.
no_stake(account_id) ==
    /\ agent_stakes[account_id] = Balance(0)
    /\ \A i \in DOMAIN promises :
          ~(/\ promises[i].callback = "on_stake_complete"
            /\ promises[i].agent_id = account_id)

\* Step A of a behaviour driven by workload w.
Under(w, A) == workload = w /\ UNCHANGED workload /\ A

(***************************************************************************)
(* The scoring engine under stake: feedback and stake-change notifications *)
(* by callers whose stake differs from the agent's.                        *)
(***************************************************************************)
NextStakeBonus ==
    \/ Under("stake_bonus", register_agent("alice", "alice", <<"nlp">>))
    \/ Under("stake_bonus",
             \E p \in {"alice", "bob"}, r \in {1, 5} :
                add_feedback(p, "alice", r, CategoriesFor(r)))
    \/ Under("stake_bonus",
             \E p \in {"alice", "bob"} :
                update_reputation_on_stake_change(p, "alice"))
    \/ Under("stake_bonus",
             \E p \in {"alice", "bob"}, amount \in StakeAmounts :
                no_stake(p) /\ stake_tokens(p, amount))

(***************************************************************************)
(* Feedback that ages: blocks pass between the entries and the             *)
(* recomputations.                                                         *)
(***************************************************************************)
NextExpiry ==
    \/ Under("expiry", Tick(1))
    \/ Under("expiry", register_agent("alice", "alice", <<"nlp">>))
    \/ Under("expiry",
             \E r \in {1, 5} : add_feedback("bob", "alice", r, CategoriesFor(r)))
    \/ Under("expiry", update_reputation_on_stake_change("bob", "alice"))

(***************************************************************************)
(* Violations: reports of every kind by the owner against a staked agent,  *)
(* and reports by an outsider or against an unknown agent.                 *)
(***************************************************************************)
NextViolation ==
    \/ Under("violation", register_agent("alice", "alice", <<"nlp">>))
    \/ Under("violation",
             \E amount \in SlashableStakes :
                no_stake("alice") /\ stake_tokens("alice", amount))
    \/ Under("violation",
             \E p \in {owner_id, "bob"}, a \in AgentIds :
                \E v \in (IF p = owner_id /\ a = "alice"
                           THEN ViolationTypes ELSE {"SecurityBreach"}) :
                   report_violation(p, a, v))
    \/ Under("violation", \E p \in AgentIds : complete_remediation_task(p))
    \/ Under("violation",
             \E i \in ViolationIndexInputs : appeal_violation("alice", i))

(***************************************************************************)
(* Governance restoring points, by the owner and by an outsider, with      *)
(* point values up to the end of the u32 range.                            *)
(***************************************************************************)
NextRestoration ==
    \/ Under("restoration", register_agent("alice", "alice", <<"nlp">>))
    \/ Under("restoration",
             \E p \in {owner_id, "bob"}, a \in AgentIds, points \in PointsInputs :
                restore_reputation(p, a, points))
    \/ Under("restoration",
             report_violation(owner_id, "alice", "EthicalViolation"))

(***************************************************************************)
(* Feedback and intents with ratings and statuses in and out of range.     *)
(***************************************************************************)
NextFeedback ==
    \/ Under("feedback", register_agent("alice", "alice", <<"nlp">>))
    \/ Under("feedback", Tick(MaxTime))
    \/ Under("feedback",
             \E a \in AgentIds, f \in FeedbackInputs :
                add_feedback(owner_id, a, f[1], f[2]))
    \/ Under("feedback",
             \E p \in AgentIds, st \in IntentStatusInputs :
                update_intent_status(p, st))
    \/ Under("feedback",
             \E a \in AgentIds : update_reputation_on_stake_change(owner_id, a))

(***************************************************************************)
(* Registration by the agent and by others, of fresh and of known agents.  *)
(***************************************************************************)
NextRegistration ==
    \/ Under("registration",
             \E p \in Accounts, a \in AgentIds, sp \in SpecializationInputs :
                register_agent(p, a, sp))
    \/ Under("registration", Tick(MaxTime))
    \/ Under("registration",
             add_feedback(owner_id, "alice", 5, CategoriesFor(5)))
    \/ Under("registration",
             report_violation(owner_id, "alice", "MinorInfraction"))
    \/ Under("registration",
             \E p \in Accounts, a \in AgentIds :
                import_cross_chain_reputation(p, a))

(***************************************************************************)
(* Staking through the token contract, its callbacks, and recovery.        *)
(***************************************************************************)
NextStaking ==
    \/ Under("staking", register_agent("alice", "alice", <<"nlp">>))
    \/ Under("staking",
             \E amount \in TransferAmounts :
                no_stake("alice") /\ stake_itlx("alice", amount))
    \/ Under("staking",
             \E i \in 1..Len(promises), r \in PromiseResults :
                stake_transfer_settled(i, r))
    \/ Under("staking",
             \E amount \in TransferAmounts :
                on_stake_complete("alice", "alice", amount, "Successful"))
    \/ Under("staking",
             \E amount \in TransferAmounts : unstake_itlx("alice", amount))
    \/ Under("staking",
             \E i \in 1..Len(promises), r \in PromiseResults :
                unstake_transfer_settled(i, r))
    \/ Under("staking", report_violation(owner_id, "alice", "MajorInfraction"))
    \/ Under("staking", complete_remediation_task("alice"))
    \/ Under("staking",
             \E amount \in TransferAmounts :
                no_stake("alice") /\ boost_recovery_with_stake("alice", amount))
    \/ Under("staking",
             \E p \in {current_account_id, "alice"},
                amount \in RecoveryAmounts, r \in PromiseResults :
                on_recovery_stake_complete(p, "alice", amount, r))

(***************************************************************************)
(* Stake deposits whose transfer outcome is delivered more than once.      *)
(***************************************************************************)
NextRedelivery ==
    \/ Under("redelivery",
             \E a \in AgentIds : register_agent(a, a, <<"nlp">>))
    \/ Under("redelivery",
             \E a \in AgentIds, amount \in TransferAmounts :
                no_stake(a) /\ stake_itlx(a, amount))
    \/ Under("redelivery",
             \E i \in 1..Len(promises), r \in PromiseResults :
                stake_transfer_delivered(i, r))
    \/ Under("redelivery",
             \E i \in 1..Len(promises), r \in PromiseResults :
                stake_transfer_settled(i, r))

(***************************************************************************)
(* Two registered agents: bob first acquires a record with one feedback    *)
(* entry and a stake of his own, and then alice is the target of every     *)
(* mutating operation and each requests a recomputation for the other.     *)
(* Points are restored to alice when her score is 0, so that the scores    *)
(* stay within a few values.                                               *)
(***************************************************************************)
AtFloor(a) == contains_key(a) /\ agent_reputations[a].score = 0

Established(b) ==
    /\ contains_key(b)
    /\ agent_reputations[b].feedback_history # <<>>
    /\ agent_stakes[b] # Balance(0)

NextTwoAgents ==
    \/ Under("two_agents", register_agent("bob", "bob", <<"nlp">>))
    \/ Under("two_agents",
             /\ contains_key("bob")
             /\ agent_reputations["bob"].feedback_history = <<>>
             /\ add_feedback(owner_id, "bob", 1, CategoriesFor(1)))
    \/ Under("two_agents",
             no_stake("bob") /\ stake_tokens("bob", Balance(5 * min_stake_amount)))
    \/ Under("two_agents",
             Established("bob") /\ register_agent("alice", "alice", <<"nlp">>))
    \/ Under("two_agents",
             /\ Established("bob")
             /\ add_feedback(owner_id, "alice", 5, CategoriesFor(5)))
    \/ Under("two_agents",
             /\ Established("bob")
             /\ report_violation(owner_id, "alice", "SecurityBreach"))
    \/ Under("two_agents",
             /\ Established("bob")
             /\ AtFloor("alice")
             /\ restore_reputation(owner_id, "alice", ToLimbs(30, U32Limbs)))
    \/ Under("two_agents",
             /\ Established("bob")
             /\ AtFloor("alice")
             /\ complete_remediation_task("alice"))
    \/ Under("two_agents",
             /\ Established("bob")
             /\ no_stake("alice")
             /\ stake_tokens("alice", Balance(min_stake_amount)))
    \/ Under("two_agents",
             /\ Established("bob")
             /\ unstake_itlx("alice", Balance(min_stake_amount)))
    \/ Under("two_agents",
             \E i \in 1..Len(promises), r \in PromiseResults :
                unstake_transfer_settled(i, r))
    \/ Under("two_agents",
             \E p \in AgentIds, a \in AgentIds :
                Established("bob") /\ update_reputation_on_stake_change(p, a))
    \/ Under("two_agents",
             \E r \in PromiseResults :
                /\ Established("bob")
                /\ AtFloor("alice")
                /\ on_recovery_stake_complete(current_account_id, "alice",
                                              Balance(min_stake_amount), r))

Next ==
    \/ NextStakeBonus
    \/ NextExpiry
    \/ NextViolation
    \/ NextRestoration
    \/ NextFeedback
    \/ NextRegistration
    \/ NextStaking
    \/ NextRedelivery
    \/ NextTwoAgents

Spec == Init /\ [][Next]_vars

(***************************************************************************)
(* The view methods, on a contract whose one registered agent holds a      *)
(* score at or next to a boundary of the trust levels (restore_reputation  *)
(* after a SecurityBreach at 50 reaches every score of 0..100).            *)
(***************************************************************************)
Scores == 0..100

AgentScores ==
    {0, 1, 29, 30, 31, 32, 49, 50, 51, 52, 74, 75, 76, 77, 89, 90, 91, 92, 99,
     100}

\* Staked amounts around the multiples of each minimum stake.
BonusStakes ==
    {0, 1, 2, 3, 4, 5, 6, 7, 8, 9, 10, 11, 99, 100, 199, 200, 250, 299, 300,
     399, 400, 499, 500, 999, 1000}

MinStakes == {1, 2, 100}

ActionTypes ==
    {"transaction", "critical_access", "autonomous_operation", "delegation",
     "withdrawal"}

\* Whole-token amounts at the ceilings of the trust levels.
CeilingTokens == {100, 500, 2000, 10000}

\* Transaction values: none, zero, each ceiling, one base unit above each
\* ceiling, and u128::MAX.
ValueInputs ==
    {None, Some(Balance(0)), Some(U128Max)}
        \cup {Some(Tokens(n)) : n \in CeilingTokens}
        \cup {Some(LimbsAdd(Tokens(n), Balance(1)).value) : n \in CeilingTokens}

InitViews ==
    /\ block_timestamp = 0
    /\ \E score \in AgentScores :
          agent_reputations =
              [a \in Accounts |->
                  IF a = "alice"
                  THEN [NewAgentReputation(<<>>) EXCEPT !.score = score]
                  ELSE NoRecord]
    /\ agent_stakes = [a \in Accounts |-> Balance(0)]
    /\ promises = <<>>
    /\ receipt = [method |-> "new", outcome |-> Ok]
    /\ workload = "views"

NextViews ==
    \/ \E n \in BonusStakes, min_stake \in MinStakes :
          call_calculate_stake_bonus(Balance(n), min_stake)
    \/ \E min_stake \in MinStakes :
          call_calculate_stake_bonus(HugeBalance, min_stake)
    \/ \E score \in Scores : call_get_trust_level(score)
    \/ \E a \in AgentIds : call_get_capability_limits(a)
    \/ \E a \in AgentIds, action_type \in ActionTypes, value \in ValueInputs :
          call_can_perform_action(a, action_type, value)

SpecViews == InitViews /\ [][NextViews]_vars

(***************************************************************************)
(* Properties.                                                             *)
(***************************************************************************)
Registered == {a \in Accounts : contains_key(a)}

Last(seq) == seq[Len(seq)]

\* C1: in every reachable state every registered agent's score is within
\* 0..100.
C1_ScoreWithinBounds ==
    \A a \in Registered :
        /\ agent_reputations[a].score >= 0
        /\ agent_reputations[a].score <= 100

\* A SecurityBreach reported at score 50 has floored the score at 0.
C1_Witness ==
    /\ receipt = [method |-> "report_violation", outcome |-> Ok]
    /\ \E a \in Registered :
          /\ agent_reputations[a].score = 0
          /\ agent_reputations[a].violation_history # <<>>

\* C2: in every reachable state every registered agent has
\* successful_interactions <= total_interactions.
C2_SuccessfulWithinTotal ==
    \A a \in Registered :
        agent_reputations[a].successful_interactions
            <= agent_reputations[a].total_interactions

\* The counters come from feedback and from intents, with successes and
\* failures among them.
C2_Witness ==
    \E a \in Registered :
        LET agent_rep == agent_reputations[a]
        IN  /\ Len(agent_rep.feedback_history) >= 1
            /\ agent_rep.total_interactions > Len(agent_rep.feedback_history)
            /\ agent_rep.successful_interactions >= 1
            /\ agent_rep.successful_interactions < agent_rep.total_interactions

StakeBonuses == {0, 3, 6, 9, 12, 15}

\* The entries of a feedback history whose age is at most the expiry period.
WithinExpiryPeriod(f) ==
    ~(block_timestamp - f.timestamp > feedback_expiry_period)

Fresh(feedback_history) == SelectSeq(feedback_history, WithinExpiryPeriod)

CategoryAverages(entries) ==
    [field \in DOMAIN CategoryRatingsDefault |->
        category_sum(entries, field) \div Len(entries)]

\* The bonus of a staked amount: 0 below the minimum stake, otherwise
\* min(3 * floor(stake / min_stake), 15).
BonusOfStake(stake) ==
    LET multiple == LimbsDivSmall(stake, min_stake_amount)
    IN  IF LimbsLeq(stake, min_stake_amount - 1) THEN 0
        ELSE IF LimbsLeq(multiple, 5) THEN 3 * multiple[1]
        ELSE 15

\* The step is an accepted add_feedback for agent a: it appended an entry to
\* a's feedback history.
AcceptedFeedbackFor(a) ==
    /\ receipt' = [method |-> "add_feedback", outcome |-> Ok]
    /\ Len(agent_reputations'[a].feedback_history)
          = Len(agent_reputations[a].feedback_history) + 1

\* C3: the stake bonus a recomputation adds to agent A's score is the bonus
\* of A's own staked amount, whoever the caller is: after an accepted
\* add_feedback or an update_reputation_on_stake_change that recomputes, A's
\* score is min(combined score + BonusOfStake(A's stake), 100).
C3_BonusFromAgentStake ==
    [][\A a \in Registered :
          LET before == agent_reputations[a]
              after == agent_reputations'[a]
              valid == valid_feedback(after.feedback_history)
              expected == Min(combined_score(after, valid)
                                + BonusOfStake(agent_stakes[a]), 100)
          IN  /\ receipt'.method = "update_reputation_on_stake_change"
                 => \A p \in Accounts :
                       ( /\ update_reputation_on_stake_change(p, a)
                         /\ before.total_interactions > 0
                         /\ valid # <<>> )
                       => after.score = expected
              /\ AcceptedFeedbackFor(a) => after.score = expected
      ]_vars

\* The penalty of each violation kind.
PenaltyOfKind(violation_type) ==
    CASE violation_type = "MinorInfraction" -> 5
      [] violation_type = "MajorInfraction" -> 15
      [] violation_type = "TermsViolation" -> 25
      [] violation_type = "EthicalViolation" -> 40
      [] violation_type = "SecurityBreach" -> 60

\* The slash percentage that goes with each penalty.
PenaltySlashPercent(violation_type) ==
    CASE violation_type = "MinorInfraction" -> 1
      [] violation_type = "MajorInfraction" -> 5
      [] violation_type = "TermsViolation" -> 10
      [] violation_type = "EthicalViolation" -> 25
      [] violation_type = "SecurityBreach" -> 50

\* C4: report_violation by an authorized caller on a registered agent is
\* accepted and sets the score to max(score - penalty, 0), the penalty being
\* 5, 15, 25, 40, 60 for Minor, Major, Terms, Ethical, SecurityBreach.
C4_ViolationPenalty ==
    [][receipt'.method = "report_violation" =>
       \A p \in Accounts, a \in Registered, v \in ViolationTypes :
             (report_violation(p, a, v) /\ (p = owner_id \/ is_governance_member(p)))
             => /\ receipt'.outcome = Ok
                /\ agent_reputations'[a].score
                     = Max(agent_reputations[a].score - PenaltyOfKind(v), 0)
      ]_vars

\* C4, for stakes whose slash product stays within u128: the report is
\* accepted and the score is max(score - penalty, 0).
C4_PenaltyWhenSlashFits ==
    [][receipt'.method = "report_violation" =>
       \A p \in Accounts, a \in Registered, v \in ViolationTypes :
             ( /\ report_violation(p, a, v)
               /\ (p = owner_id \/ is_governance_member(p))
               /\ ~LimbsMulSmall(agent_stakes[a], PenaltySlashPercent(v)).overflow )
             => /\ receipt'.outcome = Ok
                /\ agent_reputations'[a].score
                     = Max(agent_reputations[a].score - PenaltyOfKind(v), 0)
      ]_vars

\* floor(stake * pct / 100) over the naturals: the product is taken with one
\* more limb than a u128 has, so it is exact.
ExactSlash(stake, pct) ==
    SubSeq(LimbsDivSmall(LimbsMulSmall(stake \o <<0>>, pct).value, 100),
           1, U128Limbs)

\* C5: an accepted report_violation leaves the agent's stake at
\* stake - floor(stake * pct / 100), pct being 1, 5, 10, 25, 50 by kind, so
\* that 0 <= new stake <= old stake.
C5_SlashedStake ==
    [][receipt'.method = "report_violation" =>
       \A p \in Accounts, a \in Registered, v \in ViolationTypes :
             (report_violation(p, a, v) /\ receipt'.outcome = Ok)
             => /\ agent_stakes'[a]
                     = LimbsSub(agent_stakes[a],
                                ExactSlash(agent_stakes[a], PenaltySlashPercent(v)))
                /\ ~LimbsLess(agent_stakes[a], agent_stakes'[a])
      ]_vars

\* C5, for stakes whose slash product stays within u128: the stake left is
\* stake - floor(stake * pct / 100).
C5_SlashWhenProductFits ==
    [][receipt'.method = "report_violation" =>
       \A p \in Accounts, a \in Registered, v \in ViolationTypes :
             ( /\ report_violation(p, a, v)
               /\ receipt'.outcome = Ok
               /\ ~LimbsMulSmall(agent_stakes[a], PenaltySlashPercent(v)).overflow )
             => /\ agent_stakes'[a]
                     = LimbsSub(agent_stakes[a],
                                ExactSlash(agent_stakes[a], PenaltySlashPercent(v)))
                /\ ~LimbsLess(agent_stakes[a], agent_stakes'[a])
      ]_vars

\* C6: report_violation and restore_reputation by a caller that is neither
\* the owner nor a governance member are rejected and leave every agent's
\* score, violation history and stake unchanged.
C6_UnauthorizedRejected ==
    [][receipt'.method \in {"report_violation", "restore_reputation"} =>
       \A p \in Accounts, a \in AgentIds :
             ~(p = owner_id \/ is_governance_member(p))
             => /\ \A v \in ViolationTypes :
                      report_violation(p, a, v)
                      => /\ receipt'.outcome # Ok
                         /\ UNCHANGED <<agent_reputations, agent_stakes>>
                /\ \A points \in PointsInputs :
                      restore_reputation(p, a, points)
                      => /\ receipt'.outcome # Ok
                         /\ UNCHANGED <<agent_reputations, agent_stakes>>
      ]_vars

\* A report by a caller without the right, against a registered agent with a
\* stake, was rejected.
C6_Witness ==
    /\ receipt.method = "report_violation"
    /\ receipt.outcome # Ok
    /\ receipt.outcome # "Agent not registered"
    /\ \E a \in Registered : agent_stakes[a] # Balance(0)

\* A restoration by a caller without the right, against a registered agent,
\* was rejected.
C6_WitnessRestore ==
    /\ receipt.method = "restore_reputation"
    /\ receipt.outcome
          = "Unauthorized: only owner or governance can restore reputation"
    /\ Registered # {}

\* min(score + points, 100) over the naturals, points a u32 in limbs.
SaturatedSum(score, points) ==
    IF LimbsLeq(points, 100 - score) THEN score + points[1] ELSE 100

\* C7: restore_reputation by an authorized caller on a registered agent is
\* accepted and sets the score to min(score + points, 100) for every u32
\* value of points; the sum saturates and never wraps.
C7_RestoreSaturates ==
    [][receipt'.method = "restore_reputation" =>
       \A p \in Accounts, a \in Registered, points \in PointsInputs :
             (restore_reputation(p, a, points)
                 /\ (p = owner_id \/ is_governance_member(p)))
             => /\ receipt'.outcome = Ok
                /\ agent_reputations'[a].score
                     = SaturatedSum(agent_reputations[a].score, points)
      ]_vars

\* C8: a feedback entry older than the expiry period has no part in a
\* recomputed score or category average, and an entry whose age is exactly
\* the period still counts: after a recomputation the score and the category
\* averages are those of the entries within the period.
C8_ExpiredFeedbackIgnored ==
    [][\A a \in Registered :
          LET before == agent_reputations[a]
              after == agent_reputations'[a]
              fresh == Fresh(after.feedback_history)
              from_fresh ==
                  \E bonus \in StakeBonuses :
                      after.score
                          = Min(combined_score(after, fresh) + bonus, 100)
          IN  /\ receipt'.method = "update_reputation_on_stake_change"
                 => \A p \in Accounts :
                       update_reputation_on_stake_change(p, a)
                       => IF before.total_interactions > 0 /\ fresh # <<>>
                          THEN from_fresh
                          ELSE after.score = before.score
              /\ AcceptedFeedbackFor(a)
                 => /\ from_fresh
                    /\ after.category_scores = CategoryAverages(fresh)
      ]_vars

\* A recomputation ran on a record holding an entry past the period and an
\* entry of another rating whose age is exactly the period.
C8_Witness ==
    /\ receipt \in {[method |-> "update_reputation_on_stake_change",
                     outcome |-> Ok],
                    [method |-> "add_feedback", outcome |-> Ok]}
    /\ \E a \in Registered :
          LET history == agent_reputations[a].feedback_history
          IN  \E i, j \in DOMAIN history :
                 /\ block_timestamp - history[i].timestamp
                       > feedback_expiry_period
                 /\ block_timestamp - history[j].timestamp
                       = feedback_expiry_period
                 /\ history[i].rating # history[j].rating

\* C9: add_feedback with an overall rating above 5, a category sub-rating
\* above 5 or an unregistered agent is rejected and changes no record: no
\* history entry, counter, score or last-update timestamp.
C9_InvalidFeedbackRejected ==
    [][receipt'.method = "add_feedback" =>
       \A a \in AgentIds, f \in FeedbackInputs :
          ( \/ f[1] > 5
            \/ \E field \in DOMAIN f[2] : f[2][field] > 5
            \/ a \notin Registered )
          => \A p \in Accounts :
                add_feedback(p, a, f[1], f[2])
                => /\ receipt'.outcome # Ok
                   /\ UNCHANGED <<agent_reputations, agent_stakes>>
      ]_vars

\* Feedback with an ethics sub-rating of 6 was rejected for an agent that
\* has a history and was last updated earlier.
C9_Witness ==
    /\ receipt = [method |-> "add_feedback",
                  outcome |-> "Ethics rating must be between 0 and 5"]
    /\ \E a \in Registered :
          /\ agent_reputations[a].feedback_history # <<>>
          /\ agent_reputations[a].last_update < block_timestamp

\* Feedback for an unregistered agent was rejected.
C9_WitnessUnregistered ==
    receipt = [method |-> "add_feedback", outcome |-> "Agent not registered"]

BonusStep(stake, min_stake) ==
    IF stake < min_stake THEN 0
    ELSE CASE stake \div min_stake = 1 -> 3
           [] stake \div min_stake = 2 -> 6
           [] stake \div min_stake = 3 -> 9
           [] stake \div min_stake = 4 -> 12
           [] stake \div min_stake >= 5 -> 15

\* C11: for min_stake > 0, calculate_stake_bonus returns 0 when
\* stake < min_stake, 3, 6, 9, 12 for floor(stake / min_stake) = 1, 2, 3, 4 and
\* 15 from 5 up; with min_stake = 100 the stakes 99, 100, 250, 999 give
\* 0, 3, 6, 15; the bonus never exceeds 15, also for a stake of 2^127.
C11_StakeBonusSteps ==
    [][receipt'.method = "calculate_stake_bonus" =>
       /\ \A n \in BonusStakes, min_stake \in MinStakes :
             call_calculate_stake_bonus(Balance(n), min_stake)
             => receipt'.outcome = BonusStep(n, min_stake)
       /\ \A min_stake \in MinStakes :
             call_calculate_stake_bonus(HugeBalance, min_stake)
             => receipt'.outcome = 15
       /\ receipt'.outcome <= 15
       /\ stake_bonus_of(Balance(99), 100) = 0
       /\ stake_bonus_of(Balance(100), 100) = 3
       /\ stake_bonus_of(Balance(250), 100) = 6
       /\ stake_bonus_of(Balance(999), 100) = 15
      ]_vars

\* The bonus of four times the minimum stake, 12, was returned.
C11_Witness == receipt = [method |-> "calculate_stake_bonus", outcome |-> 12]

\* The score ranges of the trust levels, lowest level first.
LevelRanges ==
    <<[level |-> "Novice", scores |-> 0..30],
      [level |-> "Apprentice", scores |-> 31..50],
      [level |-> "Trusted", scores |-> 51..75],
      [level |-> "Expert", scores |-> 76..90],
      [level |-> "Master", scores |-> 91..100]>>

\* The positions of the ranges that hold a score.
RanksOf(score) == {i \in DOMAIN LevelRanges : score \in LevelRanges[i].scores}

RankOfLevel(level) ==
    CHOOSE i \in DOMAIN LevelRanges : LevelRanges[i].level = level

\* C12: every score of 0..100 lies in exactly one of the ranges 0-30 Novice,
\* 31-50 Apprentice, 51-75 Trusted, 76-90 Expert, 91-100 Master,
\* get_trust_level returns the level of that range, and the level never
\* decreases as the score grows.
C12_TrustLevelPartition ==
    [][receipt'.method = "get_trust_level" =>
       /\ \A score \in Scores :
             /\ Cardinality(RanksOf(score)) = 1
             /\ call_get_trust_level(score)
                => \A i \in RanksOf(score) :
                      receipt'.outcome = LevelRanges[i].level
       /\ \A score \in Scores \ {100} :
             RankOfLevel(get_trust_level(score))
                <= RankOfLevel(get_trust_level(score + 1))
      ]_vars

\* get_trust_level returned Master.
C12_Witness == receipt = [method |-> "get_trust_level", outcome |-> "Master"]

\* The trust level of a score of 0..100.
LevelOf(score) == LevelRanges[CHOOSE i \in RanksOf(score) : TRUE].level

\* The transaction ceilings of the capability table, in whole tokens.
CeilingOf ==
    [Novice |-> 100, Apprentice |-> 500, Trusted |-> 2000, Expert |-> 10000]

\* The transaction values as amounts: whole tokens plus base units, or the
\* largest u128.
ValueAmounts ==
    {[value |-> Some(Balance(0)), tokens |-> 0, units |-> 0, largest |-> FALSE],
     [value |-> Some(U128Max), tokens |-> 0, units |-> 0, largest |-> TRUE]}
        \cup {[value |-> Some(LimbsAdd(Tokens(n), Balance(u)).value),
               tokens |-> n, units |-> u, largest |-> FALSE] :
                 n \in CeilingTokens, u \in {0, 1}}

\* The amount is at most the ceiling of the level.
WithinCeiling(level, amount) ==
    \/ level = "Master"
    \/ /\ ~amount.largest
       /\ \/ amount.tokens < CeilingOf[level]
          \/ amount.tokens = CeilingOf[level] /\ amount.units = 0

\* The capability table for a registered agent's level.
TableAllows(level, action_type, value) ==
    CASE action_type = "transaction" ->
           /\ value # None
           /\ \E amount \in ValueAmounts :
                 amount.value = value /\ WithinCeiling(level, amount)
      [] action_type = "critical_access" -> level \in {"Expert", "Master"}
      [] action_type = "autonomous_operation" -> level # "Novice"
      [] action_type = "delegation" -> level \in {"Trusted", "Expert", "Master"}
      [] OTHER -> FALSE

\* C13: can_perform_action returns false for an unregistered agent, for an
\* unknown action kind and for "transaction" without a value; for a registered
\* agent it returns the entry of the capability table of the agent's current
\* trust level: value <= 100, 500, 2000, 10000 tokens for Novice..Expert and
\* any value for Master, critical_access for Expert and Master,
\* autonomous_operation from Apprentice up, delegation from Trusted up.
C13_CapabilityTable ==
    [][receipt'.method = "can_perform_action" =>
       \A a \in AgentIds, action_type \in ActionTypes, value \in ValueInputs :
          call_can_perform_action(a, action_type, value)
          => receipt'.outcome =
                (/\ a \in Registered
                 /\ TableAllows(LevelOf(agent_reputations[a].score),
                                action_type, value))
      ]_vars

\* A Novice was allowed an action: a transaction within 100 tokens.
C13_Witness ==
    /\ "alice" \in Registered
    /\ agent_reputations["alice"].score = 30
    /\ receipt = [method |-> "can_perform_action", outcome |-> TRUE]

\* An Expert was refused an action: a transaction above 10000 tokens.
C13_WitnessRefused ==
    /\ "alice" \in Registered
    /\ agent_reputations["alice"].score = 90
    /\ receipt = [method |-> "can_perform_action", outcome |-> FALSE]

\* Promise i answers a deposit whose success was already delivered.
SuccessDelivered(i) ==
    /\ promises[i].callback = "on_stake_complete"
    /\ promises[i].delivered # <<>>
    /\ promises[i].delivered[1] = "Successful"

\* C14: when the success of one stake request is delivered to the callback a
\* second time, the agent's stake and score stay as the first delivery left
\* them.
C14_DuplicateSuccessCreditedOnce ==
    [][receipt'.method = "on_stake_complete" =>
       \A i \in DOMAIN promises :
          /\ SuccessDelivered(i)
          /\ \/ stake_transfer_delivered(i, "Successful")
             \/ stake_transfer_settled(i, "Successful")
          => /\ agent_stakes' = agent_stakes
             /\ agent_reputations' = agent_reputations
      ]_vars

\* C15: when the ft_transfer requested by an accepted unstake_itlx fails,
\* right after the request, the caller's staked amount and record (with its
\* score) are those the request started from.
C15_FailedUnstakeRestoresState ==
    [][receipt'.method = "ft_transfer" =>
       \A i \in DOMAIN promises :
          /\ receipt.method = "unstake_itlx"
          /\ receipt.outcome = Ok
          /\ i = Len(promises)
          /\ unstake_transfer_settled(i, "Failed")
          => /\ agent_stakes'[promises[i].agent_id] = receipt.prior.stake
             /\ agent_reputations'[promises[i].agent_id] = receipt.prior.record
      ]_vars

\* C16: a callback that runs on a failed transfer, on_stake_complete or
\* on_recovery_stake_complete, leaves every agent's stake and record (with
\* its score) as they were before it ran.
C16_FailedTransferChangesNothing ==
    [][receipt'.method \in {"on_stake_complete", "on_recovery_stake_complete"}
       => /\ \A i \in DOMAIN promises :
                \/ stake_transfer_settled(i, "Failed")
                \/ stake_transfer_delivered(i, "Failed")
                => /\ agent_stakes' = agent_stakes
                   /\ agent_reputations' = agent_reputations
          /\ \A a \in AgentIds, amount \in RecoveryAmounts :
                on_recovery_stake_complete(current_account_id, a, amount,
                                           "Failed")
                => /\ agent_stakes' = agent_stakes
                   /\ agent_reputations' = agent_reputations
      ]_vars

\* on_stake_complete ran to its end for a registered agent whose stake is
\* still nothing: the deposit had failed.
C16_Witness ==
    /\ receipt = [method |-> "on_stake_complete", outcome |-> Ok]
    /\ "alice" \in Registered
    /\ agent_stakes["alice"] = Balance(0)
    /\ promises = <<>>

\* on_recovery_stake_complete ran to its end for an agent penalised for a
\* violation down to a score of 0: no point was granted.
C16_WitnessRecovery ==
    /\ receipt = [method |-> "on_recovery_stake_complete", outcome |-> Ok]
    /\ "alice" \in Registered
    /\ agent_reputations["alice"].score = 0

\* The points of a stake-boosted recovery for an amount below 2^16.
RecoveryGrant(amount) == Min((amount[1] * 10) \div min_stake_amount, 20)

\* Promise i is the transfer requested by an accepted
\* boost_recovery_with_stake.
BoostRequested(i) ==
    /\ promises[i].callback # "none"
    /\ promises[i].requested_by = "boost_recovery_with_stake"

\* C17: when the transfer requested by an accepted
\* boost_recovery_with_stake(amount) succeeds, the callback that runs leaves
\* the agent's score at min(old score + min(floor(amount * 10 / min_stake),
\* 20), 100).
C17_BoostGrantsRecoveryPoints ==
    [][receipt'.method = "on_stake_complete" =>
       \A i \in DOMAIN promises :
          BoostRequested(i) /\ stake_transfer_settled(i, "Successful")
          => agent_reputations'[promises[i].agent_id].score
                = Min(agent_reputations[promises[i].agent_id].score
                         + RecoveryGrant(promises[i].amount),
                      100)
      ]_vars

\* C18: boost_recovery_with_stake by an unregistered caller or by an agent
\* whose score is 50 or more panics, requests no transfer and changes no
\* stake or record; an accepted call is by a registered agent whose score is
\* below 50, and requests one transfer.
C18_BoostOnlyBelow50 ==
    [][receipt'.method = "boost_recovery_with_stake" =>
       \A a \in AgentIds, amount \in TransferAmounts :
          boost_recovery_with_stake(a, amount)
          => IF a \in Registered /\ agent_reputations[a].score < 50
             THEN /\ receipt'.outcome = Ok
                  /\ Len(promises') = Len(promises) + 1
             ELSE /\ receipt'.outcome # Ok
                  /\ promises' = promises
                  /\ agent_stakes' = agent_stakes
                  /\ agent_reputations' = agent_reputations
      ]_vars

\* A registered agent at score 50 was refused the boost.
C18_Witness ==
    /\ receipt =
          [method |-> "boost_recovery_with_stake",
           outcome |->
              "Recovery boost only available for agents with reputation below 50"]
    /\ "alice" \in Registered
    /\ agent_reputations["alice"].score = 50

\* An unregistered caller was refused the boost.
C18_WitnessUnregistered ==
    /\ receipt = [method |-> "boost_recovery_with_stake",
                  outcome |-> "Agent not registered"]
    /\ "alice" \notin Registered

\* An agent below 50 was accepted and its transfer is in flight.
C18_WitnessAccepted ==
    /\ receipt = [method |-> "boost_recovery_with_stake", outcome |-> Ok]
    /\ \E i \in DOMAIN promises : BoostRequested(i)

\* The score a recomputation requested by q stores for agent a.
RecomputedScore(q, a) ==
    recalculate_reputation(agent_reputations[a], q, a).score

\* C19: right after update_reputation_on_stake_change recomputed the score
\* of a registered agent, with no feedback added, no stake changed and no
\* time passed, a second recomputation requested by any caller stores the
\* same score.
C19_RecomputationIdempotent ==
    [][receipt'.method = "update_reputation_on_stake_change" =>
       \A p \in Accounts, a \in AgentIds :
          update_reputation_on_stake_change(p, a) /\ a \in Registered
          => \A q \in Accounts :
                RecomputedScore(q, a)' = agent_reputations'[a].score
      ]_vars

\* The same with both recomputations requested by one caller.
C19_SameCallerIdempotent ==
    [][receipt'.method = "update_reputation_on_stake_change" =>
       \A p \in Accounts, a \in AgentIds :
          update_reputation_on_stake_change(p, a) /\ a \in Registered
          => RecomputedScore(p, a)' = agent_reputations'[a].score
      ]_vars

\* The record of a newly registered agent, as far as the claim fixes it.
FreshRecord(rep) ==
    /\ rep.score = 50
    /\ rep.total_interactions = 0
    /\ rep.successful_interactions = 0
    /\ rep.feedback_history = <<>>
    /\ rep.violation_history = <<>>
    /\ Cardinality(DOMAIN rep.category_scores) = 5
    /\ \A field \in DOMAIN rep.category_scores : rep.category_scores[field] = 0

\* C20: register_agent called for another identity than the caller fails and
\* creates no record; a call that succeeds is by the agent itself, and the
\* record it creates has score 50, both interaction counters 0, empty
\* feedback and violation histories and all five category scores 0.
C20_SelfRegistrationCreatesFreshRecord ==
    [][receipt'.method = "register_agent" =>
       \A p \in Accounts, a \in AgentIds, sp \in SpecializationInputs :
          register_agent(p, a, sp)
          => /\ p # a => /\ receipt'.outcome # Ok
                         /\ agent_reputations' = agent_reputations
             /\ receipt'.outcome = Ok
                => /\ p = a
                   /\ a \notin Registered
                   /\ a \in Registered'
                   /\ FreshRecord(agent_reputations'[a])
                   /\ \A b \in Accounts \ {a} :
                         agent_reputations'[b] = agent_reputations[b]
      ]_vars

\* An agent has just registered itself, after time had passed.
C20_Witness ==
    /\ receipt = [method |-> "register_agent", outcome |-> Ok]
    /\ block_timestamp > 0
    /\ "bob" \in Registered

\* A registration on behalf of an unregistered identity was rejected.
C20_WitnessProxy ==
    /\ receipt = [method |-> "register_agent",
                  outcome |-> "Only agent can register itself"]
    /\ Registered = {}

\* Remediation tasks in a row: enough to take a score of 0 beyond 100.
MaxTasks == 21

\* The score after n remediation tasks in a row.
RECURSIVE AfterTasks(_, _)
AfterTasks(n, score) ==
    IF n = 0 THEN score ELSE remediated_score(AfterTasks(n - 1, score))

\* C21: complete_remediation_task by a registered agent sets that agent's
\* score to min(score + 5, 100) and changes nothing else of any record, stake
\* or transfer; n calls in a row from score s leave min(s + 5n, 100); a call
\* by an unregistered identity panics and changes nothing.
C21_RemediationGrantsFive ==
    [][receipt'.method = "complete_remediation_task" =>
       /\ \A p \in Accounts :
             complete_remediation_task(p)
             => IF p \in Registered
                THEN /\ receipt'.outcome = Ok
                     /\ agent_reputations' =
                           [agent_reputations EXCEPT ![p].score =
                               IF @ + 5 <= 100 THEN @ + 5 ELSE 100]
                     /\ UNCHANGED <<agent_stakes, promises, block_timestamp>>
                     /\ \A n \in 0..MaxTasks :
                           LET score == agent_reputations[p].score
                           IN  AfterTasks(n, score)
                                  = IF score + 5 * n <= 100
                                    THEN score + 5 * n ELSE 100
                ELSE /\ receipt'.outcome = "Agent not registered"
                     /\ UNCHANGED <<agent_reputations, agent_stakes, promises,
                                    block_timestamp>>
      ]_vars

\* A task was completed by an agent penalised for a violation, and its score
\* stands 5 above a multiple of ten.
C21_Witness ==
    /\ receipt = [method |-> "complete_remediation_task", outcome |-> Ok]
    /\ \E a \in Registered :
          /\ agent_reputations[a].violation_history # <<>>
          /\ agent_reputations[a].score % 10 = 5

\* A task was refused to an unregistered identity.
C21_WitnessUnregistered ==
    receipt = [method |-> "complete_remediation_task",
               outcome |-> "Agent not registered"]

\* C22: the ViolationRecord appended by an accepted report_violation holds
\* in penalty_applied the points really deducted, old score minus new score,
\* and in tokens_slashed the real reduction of the agent's stake.
C22_RecordHoldsAppliedPenalty ==
    [][receipt'.method = "report_violation" /\ receipt'.outcome = Ok =>
       \A p \in Accounts, a \in Registered, kind \in ViolationTypes :
          report_violation(p, a, kind)
          => LET violation == Last(agent_reputations'[a].violation_history)
             IN  /\ violation.penalty_applied
                       = agent_reputations[a].score - agent_reputations'[a].score
                 /\ violation.tokens_slashed
                       = LimbsSub(agent_stakes[a], agent_stakes'[a])
      ]_vars

\* The same for tokens_slashed alone.
C22_RecordHoldsAppliedSlash ==
    [][receipt'.method = "report_violation" /\ receipt'.outcome = Ok =>
       \A p \in Accounts, a \in Registered, kind \in ViolationTypes :
          report_violation(p, a, kind)
          => Last(agent_reputations'[a].violation_history).tokens_slashed
                = LimbsSub(agent_stakes[a], agent_stakes'[a])
      ]_vars

\* sum(rating_i * i) over the first n entries, i the position from the oldest.
RECURSIVE PositionWeighted(_, _)
PositionWeighted(entries, n) ==
    IF n = 0 THEN 0
    ELSE PositionWeighted(entries, n - 1) + entries[n].rating * n

\* The score of the formula for a record, its non-expired entries and a bonus.
FormulaScore(rep, entries, bonus) ==
    LET n == Len(entries)
        weighted == (20 * PositionWeighted(entries, n)) \div ((n * (n + 1)) \div 2)
        success == (rep.successful_interactions * 100) \div rep.total_interactions
        with_bonus == (weighted + success) \div 2 + bonus
    IN  IF with_bonus <= 100 THEN with_bonus ELSE 100

\* C23: when the record holds at least one non-expired entry, the score a
\* recomputation stores is
\*   min(floor((floor(20 * sum(rating_i * i) / sum(i))
\*              + floor(successful * 100 / total)) / 2) + stake_bonus, 100)
\* with i = 1..n the position of each non-expired entry in insertion order
\* and the lifetime counters; stake_bonus is the bonus the recomputation
\* takes, that of the stake of the account that requested it.
C23_ScoreFormula ==
    [][\A a \in Registered :
          LET before == agent_reputations[a]
              after == agent_reputations'[a]
              fresh == Fresh(after.feedback_history)
          IN  /\ receipt'.method = "update_reputation_on_stake_change"
                 => \A p \in Accounts :
                       ( /\ update_reputation_on_stake_change(p, a)
                         /\ fresh # <<>> )
                       => after.score
                             = FormulaScore(after, fresh,
                                            BonusOfStake(agent_stakes[p]))
              /\ AcceptedFeedbackFor(a)
                 => after.score
                       = FormulaScore(
                             after, fresh,
                             BonusOfStake(
                                agent_stakes[Last(after.feedback_history).user_id]))
      ]_vars

\* A recomputation ran on a record whose two non-expired entries hold
\* different ratings, the lower one first, with a stake bonus added.
C23_Witness ==
    /\ receipt.method \in {"update_reputation_on_stake_change", "add_feedback"}
    /\ receipt.outcome = Ok
    /\ \E a \in Registered :
          LET fresh == Fresh(agent_reputations[a].feedback_history)
          IN  /\ Len(fresh) = 2
              /\ fresh[1].rating < fresh[2].rating
              /\ agent_reputations[a].score
                    > FormulaScore(agent_reputations[a], fresh, 0)

\* A recomputation ran on a record with an expired entry before a
\* non-expired one: the counters count both, the positions only one.
C23_WitnessExpired ==
    /\ receipt.method \in {"update_reputation_on_stake_change", "add_feedback"}
    /\ receipt.outcome = Ok
    /\ \E a \in Registered :
          LET history == agent_reputations[a].feedback_history
          IN  /\ Len(history) = 2
              /\ Len(Fresh(history)) = 1
              /\ agent_reputations[a].score
                    = FormulaScore(agent_reputations[a], Fresh(history), 0)

\* C24: an accepted add_feedback appends exactly one entry, the submitted
\* one, to the end of the agent's feedback_history, adds 1 to
\* total_interactions, adds 1 to successful_interactions exactly when
\* rating >= 3, stores the recomputed score and category averages and sets
\* last_update to the current time, whoever the reviewer is and however many
\* entries it already submitted; nothing else of the record changes.
C24_FeedbackAppendsAndCounts ==
    [][receipt'.method = "add_feedback" /\ receipt'.outcome = Ok =>
       \A p \in Accounts, a \in Registered, f \in FeedbackInputs :
          add_feedback(p, a, f[1], f[2])
          => LET before == agent_reputations[a]
                 after == agent_reputations'[a]
                 fresh == Fresh(after.feedback_history)
             IN  /\ after.feedback_history
                       = Append(before.feedback_history,
                                [user_id |-> p, rating |-> f[1],
                                 category_ratings |-> f[2],
                                 timestamp |-> block_timestamp])
                 /\ after.total_interactions = before.total_interactions + 1
                 /\ after.successful_interactions
                       = before.successful_interactions
                            + (IF f[1] >= 3 THEN 1 ELSE 0)
                 /\ after.score
                       = FormulaScore(after, fresh,
                                      BonusOfStake(agent_stakes[p]))
                 /\ after.category_scores = CategoryAverages(fresh)
                 /\ after.last_update = block_timestamp
                 /\ after.specializations = before.specializations
                 /\ after.violation_history = before.violation_history
      ]_vars

\* A second entry of the same reviewer was accepted, with a rating of 3
\* after a rating of 2 and after time had passed: one interaction of the two
\* is successful.
C24_Witness ==
    /\ receipt = [method |-> "add_feedback", outcome |-> Ok]
    /\ block_timestamp > 0
    /\ \E a \in Registered :
          LET rep == agent_reputations[a]
          IN  /\ Len(rep.feedback_history) = 2
              /\ rep.feedback_history[1].user_id
                    = rep.feedback_history[2].user_id
              /\ rep.feedback_history[1].rating = 2
              /\ rep.feedback_history[2].rating = 3
              /\ rep.total_interactions = 2
              /\ rep.successful_interactions = 1
              /\ rep.last_update = block_timestamp

\* C25: an agent's staked amount grows only in the callback of a transfer
\* that succeeded: every step that raises a stake is a run of
\* on_stake_complete on a successful outcome of a transfer in flight.
C25_StakeGrowsOnlyByTransfer ==
    [][\A a \in Accounts :
          LimbsLess(agent_stakes[a], agent_stakes'[a])
          => /\ receipt'.method = "on_stake_complete"
             /\ \E i \in DOMAIN promises :
                   /\ promises[i].callback = "on_stake_complete"
                   /\ promises[i].agent_id = a
                   /\ \/ stake_transfer_settled(i, "Successful")
                      \/ stake_transfer_delivered(i, "Successful")
      ]_vars

\* C26: recovery points of a stake-boosted recovery are added only to a
\* score below 50: whenever on_recovery_stake_complete raises an agent's
\* score, that score was below 50 when it ran, whatever ran since the
\* request.
C26_RecoveryOnlyBelow50 ==
    [][receipt'.method = "on_recovery_stake_complete" =>
       \A a \in Registered :
          agent_reputations'[a].score > agent_reputations[a].score
          => agent_reputations[a].score < 50
      ]_vars

\* min(floor(amount * 10 / min_stake), 20) over the unbounded naturals, for
\* an amount in limbs: the quotient reaches 20 from amount = 2 * min_stake on.
FullGrant(amount) ==
    IF LimbsLess(amount, Balance(2 * min_stake_amount))
    THEN RecoveryGrant(amount)
    ELSE 20

\* C27: on_recovery_stake_complete on a successful transfer, for a registered
\* agent, adds min(floor(amount * 10 / min_stake), 20) points for every
\* amount of the u128 range, 20 whenever the quotient is 20 or more, also
\* when the quotient is beyond 2^32 - 1; the score becomes
\* min(score + grant, 100).
C27_GrantForEveryAmount ==
    [][receipt'.method = "on_recovery_stake_complete" =>
       \A a \in Registered, amount \in RecoveryAmounts :
          on_recovery_stake_complete(current_account_id, a, amount,
                                     "Successful")
          => /\ receipt'.outcome = Ok
             /\ agent_reputations'[a].score
                   = Min(agent_reputations[a].score + FullGrant(amount), 100)
      ]_vars

\* The same for the amounts whose quotient amount * 10 / min_stake stays
\* within the u32 range.
C27_GrantWhenQuotientFits ==
    [][receipt'.method = "on_recovery_stake_complete" =>
       \A a \in Registered, amount \in TransferAmounts \cup {Balance(1)} :
          on_recovery_stake_complete(current_account_id, a, amount,
                                     "Successful")
          => /\ receipt'.outcome = Ok
             /\ agent_reputations'[a].score
                   = Min(agent_reputations[a].score + FullGrant(amount), 100)
      ]_vars

\* C28: update_reputation_on_stake_change on a registered agent whose
\* feedback history holds no non-expired entry, because it is empty or
\* because every entry expired, leaves the agent's score and category_scores,
\* and the rest of its record, unchanged, also when the agent's interaction
\* counters or stake are not zero.
C28_RecomputationWithoutFeedback ==
    [][receipt'.method = "update_reputation_on_stake_change" =>
       \A p \in Accounts, a \in Registered :
          ( /\ update_reputation_on_stake_change(p, a)
            /\ Fresh(agent_reputations[a].feedback_history) = <<>> )
          => /\ agent_reputations'[a].score = agent_reputations[a].score
             /\ agent_reputations'[a].category_scores
                   = agent_reputations[a].category_scores
             /\ agent_reputations' = agent_reputations
      ]_vars

\* A recomputation ran on a record whose entries have all expired and whose
\* score is not what its counters alone would give.
C28_Witness ==
    /\ receipt = [method |-> "update_reputation_on_stake_change", outcome |-> Ok]
    /\ \E a \in Registered :
          LET rep == agent_reputations[a]
          IN  /\ rep.feedback_history # <<>>
              /\ Fresh(rep.feedback_history) = <<>>
              /\ rep.total_interactions > 0
              /\ rep.score
                    # ((rep.successful_interactions * 100)
                          \div rep.total_interactions) \div 2

\* A recomputation ran on a record without any entry whose counters are not
\* zero.
C28_WitnessCounters ==
    /\ receipt = [method |-> "update_reputation_on_stake_change", outcome |-> Ok]
    /\ \E a \in Registered :
          /\ agent_reputations[a].feedback_history = <<>>
          /\ agent_reputations[a].total_interactions > 0

\* A recomputation ran on a record without any entry, requested by an
\* account whose stake is worth a bonus.
C28_WitnessStake ==
    /\ receipt = [method |-> "update_reputation_on_stake_change", outcome |-> Ok]
    /\ agent_stakes["alice"] = Balance(5 * min_stake_amount)
    /\ agent_stakes["bob"] = Balance(5 * min_stake_amount)
    /\ "alice" \in Registered
    /\ agent_reputations["alice"].feedback_history = <<>>

\* old is a prefix of new.
IsPrefix(old, new) ==
    /\ Len(old) <= Len(new)
    /\ SubSeq(new, 1, Len(old)) = old

\* C29: across every step, a registered agent stays registered, the previous
\* feedback_history and violation_history are prefixes of the new ones, and
\* total_interactions and successful_interactions do not decrease.
C29_HistoriesAppendOnly ==
    [][\A a \in Registered :
          /\ a \in Registered'
          /\ IsPrefix(agent_reputations[a].feedback_history,
                      agent_reputations'[a].feedback_history)
          /\ IsPrefix(agent_reputations[a].violation_history,
                      agent_reputations'[a].violation_history)
          /\ agent_reputations[a].total_interactions
                <= agent_reputations'[a].total_interactions
          /\ agent_reputations[a].successful_interactions
                <= agent_reputations'[a].successful_interactions
      ]_vars

\* An entry was appended behind an entry that had expired, and both are
\* stored.
C29_Witness ==
    /\ receipt = [method |-> "add_feedback", outcome |-> Ok]
    /\ \E a \in Registered :
          LET history == agent_reputations[a].feedback_history
          IN  /\ Len(history) = 2
              /\ ~WithinExpiryPeriod(history[1])
              /\ WithinExpiryPeriod(history[2])
              /\ agent_reputations[a].total_interactions >= 2

\* A violation was recorded for an agent with feedback.
C29_WitnessViolation ==
    \E a \in Registered :
       /\ agent_reputations[a].violation_history # <<>>
       /\ agent_reputations[a].feedback_history # <<>>

\* The accounts whose record or staked amount a step changes.
Changed ==
    {b \in Accounts :
        \/ agent_reputations'[b] # agent_reputations[b]
        \/ agent_stakes'[b] # agent_stakes[b]}

\* C30: a step changes the record and the staked amount of at most one
\* account, and when the step is add_feedback, report_violation,
\* restore_reputation, complete_remediation_task, unstake_itlx, a stake
\* callback or update_reputation_on_stake_change for agent A, the record and
\* the staked amount of every other account are unchanged.
C30_OneAgentPerOperation ==
    [][/\ Cardinality(Changed) <= 1
       /\ receipt'.method = "add_feedback"
          => \A a \in AgentIds :
                \/ Changed \subseteq {a}
                \/ \A p \in Accounts, f \in FeedbackInputs :
                      ~add_feedback(p, a, f[1], f[2])
       /\ receipt'.method = "report_violation"
          => \A a \in AgentIds :
                \/ Changed \subseteq {a}
                \/ \A p \in Accounts, kind \in ViolationTypes :
                      ~report_violation(p, a, kind)
       /\ receipt'.method = "restore_reputation"
          => \A a \in AgentIds :
                \/ Changed \subseteq {a}
                \/ \A p \in Accounts, points \in PointsInputs :
                      ~restore_reputation(p, a, points)
       /\ receipt'.method = "complete_remediation_task"
          => \A a \in Accounts :
                Changed \subseteq {a} \/ ~complete_remediation_task(a)
       /\ receipt'.method = "unstake_itlx"
          => \A a \in Accounts :
                \/ Changed \subseteq {a}
                \/ \A amount \in TransferAmounts : ~unstake_itlx(a, amount)
       /\ receipt'.method = "on_stake_complete"
          => \A i \in DOMAIN promises :
                \/ Changed \subseteq {promises[i].agent_id}
                \/ \A r \in PromiseResults :
                      /\ ~stake_transfer_settled(i, r)
                      /\ ~stake_transfer_delivered(i, r)
       /\ receipt'.method = "on_recovery_stake_complete"
          => \A a \in AgentIds :
                \/ Changed \subseteq {a}
                \/ \A p \in Accounts \cup {current_account_id},
                      amount \in RecoveryAmounts \cup {Balance(min_stake_amount)},
                      r \in PromiseResults :
                      ~on_recovery_stake_complete(p, a, amount, r)
       /\ receipt'.method = "update_reputation_on_stake_change"
          => \A a \in AgentIds :
                \/ Changed \subseteq {a}
                \/ \A p \in Accounts : ~update_reputation_on_stake_change(p, a)
      ]_vars

\* A recomputation requested by one agent for the other changed a score,
\* while the requesting agent's own score is not the one a recomputation of
\* its record would store.
C30_Witness ==
    /\ workload = "two_agents"
    /\ receipt = [method |-> "update_reputation_on_stake_change", outcome |-> Ok]
    /\ Registered = AgentIds
    /\ \E a \in AgentIds, b \in AgentIds :
          /\ a # b
          /\ agent_reputations[a].score = RecomputedScore(b, a)
          /\ agent_reputations[b].score # RecomputedScore(b, b)
          /\ agent_stakes[a] # agent_stakes[b]

\* The agents whose feedback history a step extends.
FeedbackTargets ==
    {a \in Registered :
        Len(agent_reputations'[a].feedback_history)
            > Len(agent_reputations[a].feedback_history)}

\* C31: an accepted add_feedback stores a record, and in it a score, that is
\* the same whatever score the agent held before the call: a penalty of
\* report_violation or points of restore_reputation or
\* complete_remediation_task do not outlive the next accepted feedback.
C31_FeedbackOverwritesScore ==
    [][receipt'.method = "add_feedback" /\ receipt'.outcome = Ok =>
       \A a \in FeedbackTargets :
             LET before == agent_reputations[a]
                 entry == Last(agent_reputations'[a].feedback_history)
             IN  \A held \in AgentScores :
                    agent_reputations'[a]
                       = add_feedback_record([before EXCEPT !.score = held],
                                             entry.user_id, a, entry.rating,
                                             entry.category_ratings)
      ]_vars

\* Feedback was accepted for an agent with a reported security breach, and
\* the agent's score is above what the penalty left.
C31_Witness ==
    /\ workload = "two_agents"
    /\ receipt = [method |-> "add_feedback", outcome |-> Ok]
    /\ LET rep == agent_reputations["alice"]
       IN  /\ contains_key("alice")
           /\ rep.violation_history # <<>>
           /\ Last(rep.violation_history).violation_type = "SecurityBreach"
           /\ rep.feedback_history # <<>>
           /\ rep.score > 50

====
